---- MODULE Spec2Model ----
(***************************************************************************)
(* Model of the go-quiz command-line quiz runner (src/main.go).            *)
(*                                                                         *)
(* The program is sequential: main calls getFilePath, readCSV, runs the    *)
(* question loop (recordAnswer once per row) and prints the score.  The    *)
(* environment is the byte stream on standard input and the file system.   *)
(* Text is modelled as sequences of one-character strings, so that         *)
(* trimming, line splitting and comparison are computed, not assumed.      *)
(***************************************************************************)
EXTENDS Integers, Sequences, FiniteSets, TLC

VARIABLES
    pc,             \* position of main: "getFilePath", "readCSV", "loop", "exited"
    eof,            \* os.Stdin has reported end of input (the stream is closed)
    fs,             \* file system: path -> file
    filePath,       \* main.filePath
    pathErr,        \* err returned by getFilePath
    loadErr,        \* err returned by readCSV
    records,        \* main.records
    idx,            \* 1-based index of the next row of `for _, row := range records`
    userAnswers,    \* main.userAnswers
    correctAnswers, \* main.correctAnswers
    stdout,         \* lines written to standard output
    stderr,         \* lines written to standard error
    exitCode,       \* process exit status, NotExited while running
    input,          \* history: every byte the process has taken from os.Stdin, in order
    reads,          \* history: one entry per bufio.Scanner created over os.Stdin
    stats           \* history: paths handed to os.Stat

vars == << pc, eof, fs, filePath, pathErr, loadErr, records, idx, userAnswers,
           correctAnswers, stdout, stderr, exitCode, input, reads, stats >>

-----------------------------------------------------------------------------
(* Bounds of the model *)

MaxStdin == 3   \* bytes of standard input one run may take from the stream
MaxRows == 3    \* data rows of a CSV file

-----------------------------------------------------------------------------
(* Text *)

LF == "\n"
CR == "\r"
SP == " "

Chars == {"a", SP, CR, LF}

\* unicode.IsSpace restricted to the alphabet
IsSpace(c) == c \in {SP, CR, LF}

RECURSIVE SeqsUpTo(_, _)
SeqsUpTo(S, n) ==
    IF n = 0 THEN { <<>> }
    ELSE LET shorter == SeqsUpTo(S, n - 1)
         IN  shorter \cup { Append(s, c) : s \in { t \in shorter : Len(t) = n - 1 }, c \in S }


-----------------------------------------------------------------------------
(* bufio.Scanner over os.Stdin, with the default split function ScanLines *)

RECURSIVE FirstLF(_, _)
\* index of the first LF of s at or after i, 0 when there is none
FirstLF(s, i) ==
    IF i > Len(s) THEN 0
    ELSE IF s[i] = LF THEN i
    ELSE FirstLF(s, i + 1)

\* bufio.dropCR
dropCR(data) ==
    IF Len(data) > 0 /\ data[Len(data)] = CR
    THEN SubSeq(data, 1, Len(data) - 1)
    ELSE data

\* What the stream can hand to one scanner: `chunk` is everything the scanner's
\* Read calls obtained, `end` is how reading stopped.  A scanner stops reading as
\* soon as its buffer holds an LF, but the Read that delivers the LF may deliver
\* any number of further bytes (a pipe, a file); without an LF it reads until the
\* stream reports end of input or an error.
ScanInputs(budget, closed) ==
    IF closed THEN { [chunk |-> <<>>, end |-> "eof"] }
    ELSE LET chunks == SeqsUpTo(Chars, budget)
         IN  { [chunk |-> c, end |-> "token"] : c \in { d \in chunks : FirstLF(d, 1) > 0 } }
             \cup
             { [chunk |-> c, end |-> e] :
                   c \in { d \in chunks : FirstLF(d, 1) = 0 }, e \in {"eof", "err"} }

\* scanner := bufio.NewScanner(os.Stdin); scanner.Scan(); scanner.Err(); scanner.Text()
\*   ok    : the value of scanner.Scan()
\*   text  : scanner.Text()
\*   err   : scanner.Err() is non-nil
\*   raw   : the bytes of the line returned, its terminator included
\*   taken : the number of bytes this scanner removed from the stream
Scan(in) ==
    LET k == FirstLF(in.chunk, 1)
    IN  IF k > 0
        THEN [ok |-> TRUE, text |-> dropCR(SubSeq(in.chunk, 1, k - 1)), err |-> FALSE,
              raw |-> SubSeq(in.chunk, 1, k), taken |-> Len(in.chunk)]
        ELSE IF Len(in.chunk) > 0
        THEN \* final line without LF: returned as a token at end of input or on error
             [ok |-> TRUE, text |-> dropCR(in.chunk), err |-> FALSE,
              raw |-> in.chunk, taken |-> Len(in.chunk)]
        ELSE [ok |-> FALSE, text |-> <<>>, err |-> (in.end = "err"),
              raw |-> <<>>, taken |-> 0]

RECURSIVE TrimLeft(_)
TrimLeft(s) == IF Len(s) > 0 /\ IsSpace(s[1]) THEN TrimLeft(Tail(s)) ELSE s

RECURSIVE TrimRight(_)
TrimRight(s) ==
    IF Len(s) > 0 /\ IsSpace(s[Len(s)]) THEN TrimRight(SubSeq(s, 1, Len(s) - 1)) ELSE s

\* strings.TrimSpace
TrimSpace(s) == TrimRight(TrimLeft(s))

-----------------------------------------------------------------------------
(* Paths and the file system *)

\* const defaultFilePath = "./data/problems.csv": a relative path, kept as one unit
defaultFilePath == << "./data/problems.csv" >>

\* filepath.IsAbs
IsAbs(path) == Len(path) > 0 /\ path[1] = "/"

\* filepath.Abs with a working directory "/cwd": a relative path is joined to it
Abs(path) ==
    IF IsAbs(path) THEN path
    ELSE << "/", "cwd/" >> \o path

\* the one path a user can type, within the alphabet, that may name a file
userFilePath == Abs(<< "a" >>)

\* the file system is keyed by absolute paths
FsPaths == { Abs(defaultFilePath), userFilePath }

Missing == [exists |-> FALSE, readable |-> FALSE, rows |-> <<>>]

\* the file a path names: the OS resolves a relative path against the working directory
FileAt(files, path) ==
    IF Abs(path) \in DOMAIN files THEN files[Abs(path)] ELSE Missing

\* CSV fields are sequences of characters, a row is a sequence of fields
Header(w) == SubSeq(<< <<"question">>, <<"answer">>, <<"note">> >>, 1, w)

HeaderWidths == {1, 2, 3}

DataRows == { << <<"p">> >>, << <<"p">>, <<"a">> >>, << <<"q">>, <<"A">> >> }

\* a file: absent, present but not openable, or lines of comma-separated fields
\* (rows = << >> is the empty file; otherwise the first row is the header)
Files ==
    { Missing,
      [exists |-> TRUE, readable |-> FALSE, rows |-> <<>>],
      [exists |-> TRUE, readable |-> TRUE, rows |-> <<>>] }
    \cup
    { [exists |-> TRUE, readable |-> TRUE, rows |-> << Header(w) >> \o d] :
          w \in HeaderWidths, d \in SeqsUpTo(DataRows, MaxRows) }

-----------------------------------------------------------------------------
(* The functions of main.go *)

\* getFilePath as it would be if the default went through the same expansion and
\* existence check as a typed path
getFilePath_checksDefault(in, cwdFails, files) ==
    LET sc == Scan(in)
        typed == TrimSpace(sc.text)
        chosen == IF typed = <<>> THEN defaultFilePath ELSE typed
        expandedPath == Abs(chosen)
    IN  IF ~sc.ok
        THEN [path |-> <<>>, err |-> IF sc.err THEN "ReadFailure" ELSE "NoInput",
              stats |-> <<>>]
        ELSE IF cwdFails /\ ~IsAbs(chosen)
        THEN [path |-> <<>>, err |-> "AbsFailure", stats |-> <<>>]
        ELSE IF ~FileAt(files, expandedPath).exists
        THEN [path |-> <<>>, err |-> "NotFound", stats |-> << expandedPath >>]
        ELSE [path |-> expandedPath, err |-> "nil", stats |-> << expandedPath >>]

\* getFilePath.  `in` is what the stream hands to the scanner, cwdFails whether
\* os.Getwd fails inside filepath.Abs.  stats lists the paths given to os.Stat.
getFilePath(in, cwdFails, files) ==
    LET sc == Scan(in)
        typed == TrimSpace(sc.text)
        expandedPath == Abs(typed)
    IN  IF ~sc.ok
        THEN [path |-> <<>>, err |-> IF sc.err THEN "ReadFailure" ELSE "NoInput",
              stats |-> <<>>]
        ELSE IF typed = <<>>
        THEN [path |-> defaultFilePath, err |-> "nil", stats |-> <<>>]
        ELSE IF cwdFails /\ ~IsAbs(typed)
        THEN [path |-> <<>>, err |-> "AbsFailure", stats |-> <<>>]
        ELSE IF ~FileAt(files, expandedPath).exists
        THEN [path |-> <<>>, err |-> "NotFound", stats |-> << expandedPath >>]
        ELSE [path |-> expandedPath, err |-> "nil", stats |-> << expandedPath >>]

\* readCSV.  csv.Reader with its default FieldsPerRecord = 0: the number of fields
\* of the first record (the header) becomes the number every later record must have.
readCSV(path, files) ==
    LET file == FileAt(files, path)
        failure(e) == [records |-> <<>>, headers |-> <<>>, err |-> e]
    IN  IF ~file.exists \/ ~file.readable THEN failure("OpenFailure")
        ELSE IF Len(file.rows) = 0 THEN failure("HeaderFailure")
        ELSE IF \E i \in 2..Len(file.rows) : Len(file.rows[i]) # Len(file.rows[1])
        THEN failure("ParseFailure")
        ELSE [records |-> Tail(file.rows), headers |-> Head(file.rows), err |-> "nil"]

\* recordAnswer as its comment describes it: "with leading and trailing
\* whitespace removed"
recordAnswer_trimmed(in) ==
    LET sc == Scan(in)
    IN  IF ~sc.ok
        THEN [answer |-> <<>>, err |-> IF sc.err THEN "ReadFailure" ELSE "NoInput"]
        ELSE [answer |-> TrimSpace(sc.text), err |-> "nil"]

\* recordAnswer
recordAnswer(in) ==
    LET sc == Scan(in)
    IN  IF ~sc.ok
        THEN [answer |-> <<>>, err |-> IF sc.err THEN "ReadFailure" ELSE "NoInput"]
        ELSE [answer |-> sc.text, err |-> "nil"]

RECURSIVE scoreFrom(_, _, _, _)
\* the loop of calculateScore from index i on; panic when correctAnswers[i] is
\* out of range
scoreFrom(ua, ca, i, userPoints) ==
    IF i > Len(ua) THEN [points |-> userPoints, panic |-> FALSE]
    ELSE IF i > Len(ca) THEN [points |-> userPoints, panic |-> TRUE]
    ELSE scoreFrom(ua, ca, i + 1, IF ua[i] = ca[i] THEN userPoints + 1 ELSE userPoints)

RECURSIVE scoreFrom_negative(_, _, _, _)
scoreFrom_negative(ua, ca, i, userPoints) ==
    IF i > Len(ua) THEN [points |-> userPoints, panic |-> FALSE]
    ELSE IF i > Len(ca) THEN [points |-> userPoints, panic |-> TRUE]
    ELSE scoreFrom_negative(ua, ca, i + 1,
                            IF ua[i] = ca[i] THEN userPoints + 1 ELSE userPoints - 1)

\* calculateScore with negative marking: a wrong answer takes a point away
calculateScore_negative(ua, ca) == scoreFrom_negative(ua, ca, 1, 0)

\* calculateScore
calculateScore(ua, ca) == scoreFrom(ua, ca, 1, 0)

\* the denominator as the number of answers collected
scoreTotal_answered(recs, ua) == Len(ua)

\* the denominator of line 63: float64(len(records))
scoreTotal(recs, ua) == Len(recs)

\* userScore as printed by "%.1f": float64(userPoints) / float64(total) * 100.
\* A float64 division by zero does not panic; 0/0 is NaN and prints as "NaN".
\* Otherwise the value in tenths of a percent, rounded to nearest (ties to even).
userScore(userPoints, total) ==
    IF total = 0
    THEN [nan |-> TRUE, tenths |-> 0]
    ELSE LET q == (userPoints * 1000) \div total
             r == (userPoints * 1000) % total
         IN  [nan |-> FALSE,
              tenths |-> IF 2 * r > total \/ (2 * r = total /\ q % 2 = 1) THEN q + 1 ELSE q]

-----------------------------------------------------------------------------
(* Output and exit status *)

NotExited == 0 - 1
ExitOK == 0         \* os.Exit(0)
ExitFailure == 1    \* os.Exit(1)
ExitPanic == 2      \* the Go runtime's exit status for an unrecovered panic

Line(kind, text) ==
    [kind |-> kind, text |-> text, points |-> 0, total |-> 0,
     pct |-> [nan |-> FALSE, tenths |-> 0]]

ScoreLine(points, total, pct) ==
    [kind |-> "score", text |-> <<>>, points |-> points, total |-> total, pct |-> pct]

\* one scanner's use of os.Stdin; q is the question it served, 0 for the path prompt
ReadEntry(q, in) ==
    LET sc == Scan(in)
    IN  [q |-> q, ok |-> sc.ok, text |-> sc.text, raw |-> sc.raw,
         start |-> Len(input), taken |-> sc.taken, end |-> in.end]

\* a failed load that is reported without os.Exit(1): main goes on with nil records
loadFailed_noExit == [pc |-> "loop", exitCode |-> NotExited]

\* main, lines 40-43: a failed load is reported and the process exits
loadFailed == [pc |-> "exited", exitCode |-> ExitFailure]

\* a failed read without `continue` for the expected answer: it is still appended
skipQuestion_keepsExpected(ua, ca, row) ==
    [ua |-> ua, ca |-> Append(ca, IF Len(row) >= 2 THEN row[2] ELSE <<>>)]

\* main, lines 54-57: a failed read is reported and the row is skipped (`continue`)
skipQuestion(ua, ca, row) == [ua |-> ua, ca |-> ca]

-----------------------------------------------------------------------------
(* The state machine: main *)

Init ==
    /\ pc = "getFilePath"
    /\ eof = FALSE
    /\ \E target \in FsPaths, file \in Files :
           fs = [p \in FsPaths |-> IF p = target THEN file ELSE Missing]
    /\ filePath = <<>>
    /\ pathErr = "nil"
    /\ loadErr = "nil"
    /\ records = <<>>
    /\ idx = 1
    /\ userAnswers = <<>>
    /\ correctAnswers = <<>>
    /\ stdout = <<>>
    /\ stderr = <<>>
    /\ exitCode = NotExited
    /\ input = <<>>
    /\ reads = <<>>
    /\ stats = <<>>

\* main, lines 31-37, with the call of getFilePath
MainGetFilePath ==
    /\ pc = "getFilePath"
    /\ \E in \in ScanInputs(MaxStdin - Len(input), eof), cwdFails \in BOOLEAN :
           LET r == getFilePath(in, cwdFails, fs)
               prompt == Line("pathPrompt", defaultFilePath)
           IN  /\ input' = input \o in.chunk
               /\ eof' = (eof \/ in.end = "eof")
               /\ reads' = Append(reads, ReadEntry(0, in))
               /\ stats' = stats \o r.stats
               /\ filePath' = r.path
               /\ pathErr' = r.err
               /\ IF r.err # "nil"
                  THEN /\ stdout' = Append(stdout, prompt)
                       /\ stderr' = Append(stderr, r.err)
                       /\ exitCode' = ExitFailure
                       /\ pc' = "exited"
                  ELSE /\ stdout' = stdout \o << prompt, Line("usingFilepath", r.path) >>
                       /\ stderr' = stderr
                       /\ exitCode' = exitCode
                       /\ pc' = "readCSV"
    /\ UNCHANGED << fs, loadErr, records, idx, userAnswers, correctAnswers >>

\* main, lines 39-49, with the call of readCSV
MainReadCSV ==
    /\ pc = "readCSV"
    /\ LET r == readCSV(filePath, fs)
       IN  /\ loadErr' = r.err
           /\ records' = r.records
           /\ IF r.err # "nil"
              THEN /\ stderr' = Append(stderr, r.err)
                   /\ stdout' = stdout
                   /\ pc' = loadFailed.pc
                   /\ exitCode' = loadFailed.exitCode
              ELSE /\ stderr' = stderr
                   /\ stdout' = Append(stdout, [Line("numberOfRecords", <<>>)
                                                  EXCEPT !.total = Len(r.records)])
                   /\ pc' = "loop"
                   /\ exitCode' = exitCode
    /\ idx' = 1
    /\ userAnswers' = <<>>
    /\ correctAnswers' = <<>>
    /\ UNCHANGED << eof, fs, filePath, pathErr, input, reads, stats >>

\* main, lines 51-60: one iteration of the loop over records, with the call of
\* recordAnswer.  row[1], row[2] are Go's row[0], row[1]; indexing a row that has
\* one field with [1] panics after userAnswers was appended.
MainAskQuestion ==
    /\ pc = "loop"
    /\ idx <= Len(records)
    /\ \E in \in ScanInputs(MaxStdin - Len(input), eof) :
           LET row == records[idx]
               r == recordAnswer(in)
               skipped == skipQuestion(userAnswers, correctAnswers, row)
           IN  /\ stdout' = Append(stdout, Line("question", row[1]))
               /\ input' = input \o in.chunk
               /\ eof' = (eof \/ in.end = "eof")
               /\ reads' = Append(reads, ReadEntry(idx, in))
               /\ IF r.err # "nil"
                  THEN /\ stderr' = Append(stderr, r.err)
                       /\ userAnswers' = skipped.ua
                       /\ correctAnswers' = skipped.ca
                       /\ idx' = idx + 1
                       /\ UNCHANGED << pc, exitCode >>
                  ELSE IF Len(row) < 2
                  THEN /\ userAnswers' = Append(userAnswers, r.answer)
                       /\ stderr' = Append(stderr, "panic: index out of range")
                       /\ exitCode' = ExitPanic
                       /\ pc' = "exited"
                       /\ UNCHANGED << correctAnswers, idx >>
                  ELSE /\ userAnswers' = Append(userAnswers, r.answer)
                       /\ correctAnswers' = Append(correctAnswers, row[2])
                       /\ idx' = idx + 1
                       /\ UNCHANGED << stderr, pc, exitCode >>
    /\ UNCHANGED << fs, filePath, pathErr, loadErr, records, stats >>

\* main, lines 62-67: the score, the final line and os.Exit(0)
MainScore ==
    /\ pc = "loop"
    /\ idx > Len(records)
    /\ LET score == calculateScore(userAnswers, correctAnswers)
           total == scoreTotal(records, userAnswers)
       IN  IF score.panic
           THEN /\ stderr' = Append(stderr, "panic: index out of range")
                /\ exitCode' = ExitPanic
                /\ stdout' = stdout
           ELSE /\ stdout' = Append(stdout, ScoreLine(score.points, total,
                                                      userScore(score.points, total)))
                /\ exitCode' = ExitOK
                /\ stderr' = stderr
    /\ pc' = "exited"
    /\ UNCHANGED << eof, fs, filePath, pathErr, loadErr, records, idx, userAnswers,
                    correctAnswers, input, reads, stats >>

Next ==
    \/ MainGetFilePath
    \/ MainReadCSV
    \/ MainAskQuestion
    \/ MainScore

Spec == Init /\ [][Next]_vars

-----------------------------------------------------------------------------
(* Vocabulary of the properties *)

\* the run ended through os.Exit(0), after the final line
Completed == pc = "exited" /\ exitCode = ExitOK

FinalLine == stdout[Len(stdout)]

QuestionLines == SelectSeq(stdout, LAMBDA l : l.kind = "question")

\* positions in reads of the reads made for questions
QuestionReads == { k \in 1..Len(reads) : reads[k].q > 0 }

\* the successful question reads, in order
AnswerReads == SelectSeq(reads, LAMBDA r : r.q > 0 /\ r.ok)

\* no Read of os.Stdin has returned an error other than end of input
NoReadError == \A k \in 1..Len(reads) : reads[k].end # "err"

\* the expected answer of question q, when its row has one
HasExpected(q) == q \in 1..Len(records) /\ Len(records[q]) >= 2
Expected(q) == records[q][2]

\* A line as read, without its terminator and nothing else.  The terminator is
\* LF or CR LF; a last line that the end of the input cuts short is terminated by
\* the end of input, after an optional CR.
LineContent(raw) ==
    LET n == Len(raw)
    IN  IF n >= 2 /\ raw[n - 1] = CR /\ raw[n] = LF THEN SubSeq(raw, 1, n - 2)
        ELSE IF n >= 1 /\ raw[n] \in {LF, CR} THEN SubSeq(raw, 1, n - 1)
        ELSE raw

RECURSIVE LinesOf(_)
\* the lines of a byte sequence, each with its LF; a last line may lack it
LinesOf(bytes) ==
    LET k == FirstLF(bytes, 1)
    IN  IF Len(bytes) = 0 THEN <<>>
        ELSE IF k = 0 THEN << bytes >>
        ELSE << SubSeq(bytes, 1, k) >> \o LinesOf(SubSeq(bytes, k + 1, Len(bytes)))

Abs1000(points, total, tenths) ==
    IF tenths * total >= points * 1000
    THEN tenths * total - points * 1000
    ELSE points * 1000 - tenths * total

-----------------------------------------------------------------------------
(* C1 *)

\* C1: for every loaded dataset and every sequence of read outcomes, each question
\* is prompted exactly once in file order, the final score line is printed and the
\* process exits with code 0; and when, in a 3-question quiz, the input is the path
\* line and one correct answer line followed by end of input, the result is (1, 3).
C1_EveryQuestionAskedAndScored ==
    (pc = "exited" /\ pathErr = "nil" /\ loadErr = "nil")
        => /\ exitCode = ExitOK
           /\ FinalLine.kind = "score"
           /\ Len(QuestionLines) = Len(records)
           /\ \A i \in 1..Len(records) : QuestionLines[i].text = records[i][1]
           /\ ( /\ Len(records) = 3
                /\ eof
                /\ NoReadError
                /\ Len(LinesOf(input)) = 2
                /\ HasExpected(1)
                /\ LineContent(LinesOf(input)[2]) = Expected(1) )
              => (FinalLine.points = 1 /\ FinalLine.total = 3)

-----------------------------------------------------------------------------
(* C2 *)

\* C2: the denominator of the reported percentage is the number of data rows
\* loaded, not the number of answers collected: the total of the final line is
\* len(records) and the printed percentage is points / len(records) * 100 to one
\* decimal place.
C2_DenominatorIsDatasetLength ==
    Completed
        => /\ FinalLine.kind = "score"
           /\ FinalLine.total = Len(records)
           /\ (Len(records) > 0
                 => /\ ~FinalLine.pct.nan
                    /\ 2 * Abs1000(FinalLine.points, Len(records), FinalLine.pct.tenths)
                           <= Len(records))

\* a completed run in which a question was skipped and one was answered correctly
C2_Witness ==
    /\ Completed
    /\ Len(userAnswers) < Len(records)
    /\ FinalLine.points >= 1

-----------------------------------------------------------------------------
(* C3 *)

\* C3: the reported correctCount is the number of questions whose collected answer
\* matched, and 0 <= correctCount <= totalQuestions, read failures included.
C3_CorrectCountInRange ==
    Completed
        => /\ FinalLine.kind = "score"
           /\ 0 <= FinalLine.points
           /\ FinalLine.points <= FinalLine.total
           /\ FinalLine.points =
                  Cardinality({ k \in QuestionReads :
                                    /\ reads[k].ok
                                    /\ HasExpected(reads[k].q)
                                    /\ reads[k].text = Expected(reads[k].q) })

\* a completed run with a failed read, a wrong answer and a right answer
C3_Witness ==
    /\ Completed
    /\ FinalLine.points >= 1
    /\ \E k \in QuestionReads : ~reads[k].ok
    /\ \E k \in QuestionReads :
           reads[k].ok /\ HasExpected(reads[k].q) /\ reads[k].text # Expected(reads[k].q)

-----------------------------------------------------------------------------
(* C4 *)

-----------------------------------------------------------------------------
(* C5 *)

\* C5: when path resolution or the file load fails, no question is ever printed,
\* no answer is ever read, and the process has exited with a non-zero code.
C5_StartupErrorsAbort ==
    (pathErr # "nil" \/ loadErr # "nil")
        => /\ pc = "exited"
           /\ exitCode \notin {NotExited, ExitOK}
           /\ Len(QuestionLines) = 0
           /\ QuestionReads = {}

\* a load that failed on a malformed row
C5_Witness == pc = "exited" /\ loadErr = "ParseFailure"

-----------------------------------------------------------------------------
(* C6 *)

\* C6: whatever the header, a data row with fewer than 2 columns aborts the load:
\* every row of a returned dataset has at least 2 columns, and the question loop
\* never reads column 1 of a row that lacks it.
C6_ShortRowAbortsLoad ==
    /\ \A i \in 1..Len(records) : Len(records[i]) >= 2
    /\ exitCode # ExitPanic

-----------------------------------------------------------------------------
(* C7 *)

\* C7: with zero data rows the run completes and the final line reports a
\* percentage that is a number.
C7_EmptyDatasetDefinedPercentage ==
    (pc = "exited" /\ pathErr = "nil" /\ loadErr = "nil" /\ Len(records) = 0)
        => /\ exitCode = ExitOK
           /\ FinalLine.kind = "score"
           /\ ~FinalLine.pct.nan

-----------------------------------------------------------------------------
(* C8 *)

-----------------------------------------------------------------------------
(* C9 *)

\* C9: standard input is consumed one line per prompt however it is delivered:
\* each scanner takes from the stream exactly the line it returns, and, when no
\* read has met an I/O error, the k-th prompt gets the k-th line of the input.
C9_OneLinePerPrompt ==
    \A k \in 1..Len(reads) :
        reads[k].ok
            => /\ reads[k].taken = Len(reads[k].raw)
               /\ NoReadError => reads[k].raw = LinesOf(input)[k]

-----------------------------------------------------------------------------
(* C10 *)

\* C10: at every loop head and at the call of calculateScore, userAnswers and
\* correctAnswers have the same length, at most the number of questions processed,
\* and entry k of both comes from the k-th answered question; calculateScore
\* does not index out of range.
C10_AnswersStayPaired ==
    /\ pc = "loop"
          => /\ Len(userAnswers) = Len(correctAnswers)
             /\ Len(userAnswers) <= idx - 1
             /\ Len(userAnswers) = Len(AnswerReads)
             /\ \A k \in 1..Len(userAnswers) :
                    /\ userAnswers[k] = AnswerReads[k].text
                    /\ correctAnswers[k] = Expected(AnswerReads[k].q)
             /\ ~calculateScore(userAnswers, correctAnswers).panic
    /\ (pc = "exited" /\ exitCode = ExitPanic) => idx <= Len(records)

\* calculateScore is about to run after a failed read was followed by a
\* successful one
C10_Witness ==
    /\ pc = "loop"
    /\ idx > Len(records)
    /\ \E j, k \in QuestionReads : j < k /\ ~reads[j].ok /\ reads[k].ok

====
